---- MODULE Spec2Model ----
(***************************************************************************)
(* GraceDaily devotional site.                                             *)
(*                                                                         *)
(* Two views share one external Content Store (the "devotions" table):     *)
(*   - the paginated reading view (infinite scroll, modal selection),      *)
(*   - the admin dashboard (create / update / delete with a local cache).  *)
(* Every store call is an asynchronous request: the view sends it, the     *)
(* store serves it at some later moment, and the answer is delivered to    *)
(* the awaiting continuation at some still later moment.  Requests of one  *)
(* view may be served and answered in any order.                           *)
(***************************************************************************)
EXTENDS Integers, Sequences, FiniteSets, TLC

VARIABLES
    store,              \* the devotions table: a set of Devotion records
    \* ---- paginated reading view ----
    r_phase,            \* "setup" | "mounted" | "unmounted"
    r_devotions,        \* devotions.value
    r_loading,          \* loading.value
    r_loadingMore,      \* loadingMore.value
    r_error,            \* error.value
    r_hasMore,          \* hasMore.value
    r_selectedDevotion, \* selectedDevotion.value: None or Some(devotion)
    r_overflow,         \* document.body.style.overflow
    r_net,              \* page requests in flight, in the order they were issued
    r_last,             \* history: the last step of the reading view
    r_received,         \* history: items received by successful fetches since the reset
    r_short,            \* history: some fetch has returned fewer than pageSize items
    r_failedWin,        \* history: window of the fetch that failed last, <<>> when
                        \*          the fetch that settled last did not fail
    \* ---- admin dashboard ----
    nextId,             \* the id the store assigns to the next inserted row
    a_phase,            \* "setup" | "session" | "mounted" | "unmounted"
    a_devotions,        \* devotions.value
    a_loading,          \* loading.value
    a_error,            \* error.value
    a_form,             \* title, date, verse, content, editingId
    a_submitting,       \* submitting.value
    a_net,              \* store requests in flight, in the order they were issued
    a_now,              \* the clock read by new Date()
    a_last,             \* history: the last step of the dashboard
    a_loads,            \* history: outcome of the load that settled last and of
                        \*          the load that was issued last
    a_removed,          \* history: ids of the rows the store has deleted
    a_born,             \* history: id -> createdAt of every row when it was inserted
    a_steps,            \* history: inputs and store calls of the operator so far
    \* ---- router, route guard and sign-in ----
    g_session,          \* the auth client holds a session
    g_route,            \* router.currentRoute
    g_nav,              \* the navigation awaiting getSession(): None or Some(request)
    g_op,               \* handleLogin / signOut: where the call stands
    g_last              \* history: the last decision of the guard

rvars == <<r_phase, r_devotions, r_loading, r_loadingMore, r_error, r_hasMore,
           r_selectedDevotion, r_overflow, r_net, r_last, r_received, r_short,
           r_failedWin>>

avars == <<nextId, a_phase, a_devotions, a_loading, a_error, a_form, a_submitting,
           a_net, a_now, a_last, a_loads, a_removed, a_born, a_steps>>

gvars == <<g_session, g_route, g_nav, g_op, g_last>>

vars == <<store, rvars, avars, gvars>>

(***************************************************************************)
(* Bounds of the model                                                     *)
(***************************************************************************)
MaxStore == 20          \* the reading view starts on a store of 0..MaxStore records
MaxInFlight == 2        \* requests a view may have in flight when it issues another
MaxAdminStore == 2      \* the dashboard starts on a store of 0..MaxAdminStore records
MaxSteps == 2           \* inputs and store calls of the operator in one session
MaxSiteSteps == 1       \* store calls of the operator while a visitor reads

(***************************************************************************)
(* Values                                                                  *)
(***************************************************************************)
NULL == "null"

\* a nullable object reference: null, or the object it refers to
None == {}
Some(x) == {x}

pageSize == 9

\* Text is a sequence of characters; SP is the blank that trim() removes.
SP == " "

RECURSIVE TrimLeft(_)
TrimLeft(s) == IF s # <<>> /\ Head(s) = SP THEN TrimLeft(Tail(s)) ELSE s

RECURSIVE TrimRight(_)
TrimRight(s) ==
    IF s # <<>> /\ s[Len(s)] = SP THEN TrimRight(SubSeq(s, 1, Len(s) - 1)) ELSE s

\* String.prototype.trim
Trim(s) == TrimRight(TrimLeft(s))

\* Calendar days the model knows; a date input holds "" or a day "YYYY-MM-DD",
\* the store holds ISO timestamps.
Days == {"D1", "D2"}
IsoOf == [d \in Days |-> IF d = "D1" THEN "D1T00:00:00.000Z" ELSE "D2T00:00:00.000Z"]
NaN == "NaN"

\* new Date(value): the time value of a day or of an ISO timestamp, NaN otherwise.
NewDate(value) ==
    IF value \in Days THEN value
    ELSE IF \E d \in Days : IsoOf[d] = value
         THEN CHOOSE d \in Days : IsoOf[d] = value
         ELSE NaN

\* Date.prototype.toISOString; it throws a RangeError on an invalid date, which
\* the callers below test before they use it.
ToISOString(t) == IsoOf[t]

\* .slice(0, 10) of an ISO timestamp: its day
Slice10(iso) == CHOOSE d \in Days : IsoOf[d] = iso

\* new Date().toISOString().slice(0, 10) at the time of the session
Today == "D1"

Devotion(id, title, verse, content, date, createdAt) ==
    [id |-> id, title |-> title, verse |-> verse, content |-> content,
     date |-> date, createdAt |-> createdAt]

\* The i-th row the store holds when a view starts: ids are assigned by the
\* store, creation timestamps grow with the ids.  The first row was not
\* written through the dashboard: its title ends with a blank.
Seeded(i) ==
    Devotion(i, IF i = 1 THEN <<"t", SP>> ELSE <<"t">>, <<"v">>, <<"c">>,
             IsoOf["D2"], 100 + i)

Ids(seq) == {seq[i].id : i \in DOMAIN seq}

(***************************************************************************)
(* The Content Store: .order('createdAt', {ascending: false}) and .range   *)
(***************************************************************************)
\* a plausible slip: { ascending: true }
RECURSIVE OrderByCreatedAt_Ascending(_)
OrderByCreatedAt_Ascending(S) ==
    IF S = {} THEN <<>>
    ELSE LET low == CHOOSE x \in S : \A y \in S : y.createdAt >= x.createdAt
         IN  <<low>> \o OrderByCreatedAt_Ascending(S \ {low})

RECURSIVE OrderByCreatedAtDesc(_)
OrderByCreatedAtDesc(S) ==
    IF S = {} THEN <<>>
    ELSE LET top == CHOOSE x \in S : \A y \in S : y.createdAt <= x.createdAt
         IN  <<top>> \o OrderByCreatedAtDesc(S \ {top})

Min(a, b) == IF a <= b THEN a ELSE b

\* a plausible slip: the end of the window is taken as exclusive
Range_ExclusiveTo(rows, from, to) == SubSeq(rows, from + 1, Min(to, Len(rows)))

\* .range(from, to): rows from..to of the ordered result, both inclusive, 0-based
Range(rows, from, to) == SubSeq(rows, from + 1, Min(to + 1, Len(rows)))

RemoveAt(seq, i) == SubSeq(seq, 1, i - 1) \o SubSeq(seq, i + 1, Len(seq))

(***************************************************************************)
(* Router, route guard, sign-in and sign-out                               *)
(***************************************************************************)
\* routes: [ home, admin-login, admin-dashboard (meta: requiresAuth) ]
routes ==
    << [path |-> "/",            name |-> "home",            requiresAuth |-> FALSE],
       [path |-> "/admin/login", name |-> "admin-login",     requiresAuth |-> FALSE],
       [path |-> "/admin",       name |-> "admin-dashboard", requiresAuth |-> TRUE] >>

\* the query of a location: the redirect parameter (a set of at most one full
\* path) and the other parameters
Query(redirect, rest) == [redirect |-> redirect, rest |-> rest]

NoQuery == Query({}, {})

\* a full path: the path with its query
FullPath(path, query) == [path |-> path, query |-> query]

\* the normalized location the router makes of a route record and a query
Location(r, query) == [name |-> r.name, path |-> r.path, query |-> query]

\* to.fullPath
FullPathOf(to) == FullPath(to.path, to.query)

\* to.meta: the meta of the route record, empty when the record gives none
Meta(to) ==
    [requiresAuth |-> \E i \in DOMAIN routes :
                         routes[i].name = to.name /\ routes[i].requiresAuth]

\* router.push('/path?query'): the route record is found by the path
ResolvePath(fullPath) ==
    Location(CHOOSE r \in {routes[i] : i \in DOMAIN routes} : r.path = fullPath.path,
             fullPath.query)

\* router.push({ name, query }): the route record is found by the name
ResolveName(name, query) ==
    Location(CHOOSE r \in {routes[i] : i \in DOMAIN routes} : r.name = name, query)

\* the location of the router before the first navigation
START_LOCATION == [name |-> "", path |-> "/", query |-> NoQuery]

\* what a visitor asks for with a link or the address bar
Targets ==
    { FullPath("/", NoQuery), FullPath("/admin/login", NoQuery),
      FullPath("/admin", NoQuery), FullPath("/admin", Query({}, {"draft=1"})) }

GStep(op, to, checked, error, session) ==
    [op |-> op, to |-> to, checked |-> checked, error |-> error, session |-> session]

\* a plausible slip: the guard looks at the error only
SessionMissing_OnlyOnError(error, session) == error

\* if (error || !data.session)
SessionMissing(error, session) == error \/ ~session

\* authGuard(to, from, next), up to its await.  A navigation that starts
\* while another one awaits getSession() takes its place: the router drops
\* the verdict of a navigation that is no longer the pending one.
AuthGuardStart(to) ==
    IF ~Meta(to).requiresAuth
    THEN /\ g_route' = to
         /\ g_nav' = None
         /\ g_last' = GStep("proceeded", to, FALSE, FALSE, FALSE)
    ELSE /\ g_nav' = Some([to |-> to, status |-> "sent", error |-> FALSE,
                           session |-> FALSE])
         /\ g_last' = GStep("pending", to, FALSE, FALSE, FALSE)
         /\ UNCHANGED g_route

\* a link is followed or an address is entered
GNavigate(fullPath) ==
    /\ AuthGuardStart(ResolvePath(fullPath))
    /\ UNCHANGED <<g_session, g_op>>

\* supabase.auth.getSession() is answered: an error, or the session the
\* client holds at that moment (null when it holds none)
GetSessionServe(fails) ==
    /\ \E n \in g_nav :
          /\ n.status = "sent"
          /\ g_nav' = Some([n EXCEPT !.status = "answered", !.error = fails,
                                     !.session = ~fails /\ g_session])
    /\ UNCHANGED <<g_session, g_route, g_op, g_last>>

\* authGuard, from its await on.  next({ name: 'admin-login', query }) is a
\* navigation of its own, which the guard lets through: admin-login has no
\* requiresAuth.
AuthGuardSettle ==
    /\ \E n \in g_nav :
          /\ n.status = "answered"
          /\ IF SessionMissing(n.error, n.session)
             THEN /\ g_route' = ResolveName("admin-login",
                                            Query({FullPathOf(n.to)}, {}))
                  /\ g_last' = GStep("redirected", n.to, TRUE, n.error, n.session)
             ELSE /\ g_route' = n.to
                  /\ g_last' = GStep("proceeded", n.to, TRUE, n.error, n.session)
    /\ g_nav' = None
    /\ UNCHANGED <<g_session, g_op>>

\* handleLogin(), up to its await
GHandleLogin ==
    /\ g_route.name = "admin-login"
    /\ g_op = "idle"
    /\ g_op' = "loginSent"
    /\ UNCHANGED <<g_session, g_route, g_nav, g_last>>

\* supabase.auth.signInWithPassword() is answered
SignInServe(ok) ==
    /\ g_op = "loginSent"
    /\ g_op' = (IF ok THEN "loginOk" ELSE "loginErr")
    /\ g_session' = (IF ok THEN TRUE ELSE g_session)
    /\ UNCHANGED <<g_route, g_nav, g_last>>

\* const redirect = (route.query.redirect as string) || '/admin'
RedirectAfterLogin(query) ==
    IF query.redirect # {} THEN CHOOSE p \in query.redirect : TRUE
    ELSE FullPath("/admin", NoQuery)

\* handleLogin(), from its await on
GHandleLoginSettle ==
    /\ g_op \in {"loginOk", "loginErr"}
    /\ g_op' = "idle"
    /\ IF g_op = "loginErr"
       THEN UNCHANGED <<g_route, g_nav, g_last>>
       ELSE AuthGuardStart(ResolvePath(RedirectAfterLogin(g_route.query)))
    /\ UNCHANGED g_session

\* signOut(), up to its await
GSignOut ==
    /\ g_route.name = "admin-dashboard"
    /\ g_op = "idle"
    /\ g_op' = "signOutSent"
    /\ UNCHANGED <<g_session, g_route, g_nav, g_last>>

\* supabase.auth.signOut() is carried out
SignOutServe ==
    /\ g_op = "signOutSent"
    /\ g_op' = "signOutDone"
    /\ g_session' = FALSE
    /\ UNCHANGED <<g_route, g_nav, g_last>>

\* signOut(), from its await on: router.push({ name: 'admin-login' })
GSignOutSettle ==
    /\ g_op = "signOutDone"
    /\ g_op' = "idle"
    /\ AuthGuardStart(ResolveName("admin-login", NoQuery))
    /\ UNCHANGED g_session

\* the session the auth client holds ends (expiry, sign-out in another tab)
SessionEnds ==
    /\ g_session
    /\ g_session' = FALSE
    /\ UNCHANGED <<g_route, g_nav, g_op, g_last>>

\* the router as createRouter leaves it, no session stored
GInit ==
    /\ g_session = FALSE
    /\ g_route = START_LOCATION
    /\ g_nav = None
    /\ g_op = "idle"
    /\ g_last = GStep("none", START_LOCATION, FALSE, FALSE, FALSE)

(***************************************************************************)
(* Paginated reading view                                                  *)
(***************************************************************************)
PageReq(initial, from, to) ==
    [initial |-> initial, from |-> from, to |-> to, status |-> "sent", data |-> <<>>]

RStep(op, win, n, before) == [op |-> op, win |-> win, n |-> n, before |-> before]

\* a plausible slip: the window starts one row after the rows already loaded
NextFrom_SkipsOne(initial, cache) == IF initial THEN 0 ELSE Len(cache) + 1

\* const from = initial ? 0 : devotions.value.length
NextFrom(initial, cache) == IF initial THEN 0 ELSE Len(cache)

\* loadDevotions(initial), up to its await
RLoadDevotionsStart(initial) ==
    LET cache == IF initial THEN <<>> ELSE r_devotions
        from  == NextFrom(initial, cache)
        to    == from + pageSize - 1
    IN  /\ r_loading' = (IF initial THEN TRUE ELSE r_loading)
        /\ r_loadingMore' = (IF initial THEN r_loadingMore ELSE TRUE)
        /\ r_devotions' = cache
        /\ r_hasMore' = (IF initial THEN TRUE ELSE r_hasMore)
        /\ r_net' = Append(r_net, PageReq(initial, from, to))
        /\ r_received' = (IF initial THEN <<>> ELSE r_received)
        /\ r_last' = [RStep("fetchSent", <<from, to>>, 0, r_devotions)
                        EXCEPT !.op = IF initial THEN "initialSent" ELSE "fetchSent"]
                     @@ [retryOf |-> r_failedWin, short |-> r_short]
        /\ r_failedWin' = <<>>

\* onMounted(() => loadDevotions(true))
RMount ==
    /\ r_phase = "setup"
    /\ r_phase' = "mounted"
    /\ RLoadDevotionsStart(TRUE)
    /\ UNCHANGED <<store, r_error, r_selectedDevotion, r_overflow, r_short>>

\* a plausible slip: the callback looks at loading only
ObserverGuard_NoLoadingMore(isIntersecting) ==
    isIntersecting /\ r_hasMore /\ ~r_loading

\* a plausible slip: the callback does not look at loading
ObserverGuard_NoLoading(isIntersecting) ==
    isIntersecting /\ r_hasMore /\ ~r_loadingMore

\* the condition of the useIntersectionObserver callback
ObserverGuard(isIntersecting) ==
    isIntersecting /\ r_hasMore /\ ~r_loadingMore /\ ~r_loading

\* useIntersectionObserver(loadMoreTrigger, ([entry]) => ...)
RSentinel(isIntersecting) ==
    /\ r_phase = "mounted"
    /\ Len(r_net) < MaxInFlight
    /\ IF ObserverGuard(isIntersecting)
       THEN /\ RLoadDevotionsStart(FALSE)
            /\ UNCHANGED <<store, r_phase, r_error, r_selectedDevotion, r_overflow,
                           r_short>>
       ELSE /\ r_last' = RStep("sentinelIgnored", <<>>, 0, r_devotions)
                         @@ [retryOf |-> <<>>, short |-> r_short,
                             visible |-> isIntersecting]
            /\ UNCHANGED <<store, r_phase, r_devotions, r_loading, r_loadingMore,
                           r_error, r_hasMore, r_selectedDevotion, r_overflow,
                           r_net, r_received, r_short, r_failedWin>>

\* The store serves the page request at position i: it answers the rows of the
\* window, or an error.
StoreServePage(i, fails) ==
    /\ i \in DOMAIN r_net
    /\ r_net[i].status = "sent"
    /\ r_net' = [r_net EXCEPT ![i] =
                    IF fails THEN [@ EXCEPT !.status = "err"]
                    ELSE [@ EXCEPT !.status = "ok",
                                   !.data = Range(OrderByCreatedAtDesc(store),
                                                  r_net[i].from, r_net[i].to)]]
    /\ UNCHANGED <<store, r_phase, r_devotions, r_loading, r_loadingMore, r_error,
                   r_hasMore, r_selectedDevotion, r_overflow, r_last, r_received,
                   r_short, r_failedWin>>

\* a plausible slip: the new page is put in front of the cache
MergePage_Prepends(initial, cache, items) == IF initial THEN items ELSE items \o cache

\* devotions.value = initial ? items : [...devotions.value, ...items]
MergePage(initial, cache, items) == IF initial THEN items ELSE cache \o items

\* a plausible slip: only an empty page ends the scroll
HasMoreAfter_OnlyEmpty(hasMore, items) == IF Len(items) = 0 THEN FALSE ELSE hasMore

\* a plausible slip: hasMore is never lowered
HasMoreAfter_NeverExhausts(hasMore, items) == hasMore

\* if (items.length < pageSize) hasMore.value = false
HasMoreAfter(hasMore, items) == IF Len(items) < pageSize THEN FALSE ELSE hasMore

\* a plausible slip: a failed fetch ends the scroll
RSettleError_Exhausts(req) ==
    /\ r_error' = "Unable to load devotions. Please try again later."
    /\ r_hasMore' = FALSE
    /\ r_last' = RStep("fetchFail", <<req.from, req.to>>, 0, r_devotions)
                 @@ [initial |-> req.initial, hasMoreBefore |-> r_hasMore]
    /\ r_failedWin' = <<req.from, req.to>>
    /\ UNCHANGED <<r_devotions, r_received, r_short>>

\* if (err) { error.value = ... }
RSettleError(req) ==
    /\ r_error' = "Unable to load devotions. Please try again later."
    /\ r_last' = RStep("fetchFail", <<req.from, req.to>>, 0, r_devotions)
                 @@ [initial |-> req.initial, hasMoreBefore |-> r_hasMore]
    /\ r_failedWin' = <<req.from, req.to>>
    /\ UNCHANGED <<r_devotions, r_hasMore, r_received, r_short>>

\* a plausible slip: a successful fetch clears the error message
RSettleSuccess_ClearsError(req) ==
    /\ r_devotions' = MergePage(req.initial, r_devotions, req.data)
    /\ r_hasMore' = HasMoreAfter(r_hasMore, req.data)
    /\ r_received' = r_received \o req.data
    /\ r_short' = (r_short \/ Len(req.data) < pageSize)
    /\ r_last' = RStep("fetchOk", <<req.from, req.to>>, Len(req.data), r_devotions)
                 @@ [initial |-> req.initial, hasMoreBefore |-> r_hasMore]
    /\ r_failedWin' = <<>>
    /\ r_error' = NULL

\* else { devotions.value = ...; if (items.length < pageSize) hasMore.value = false }
RSettleSuccess(req) ==
    /\ r_devotions' = MergePage(req.initial, r_devotions, req.data)
    /\ r_hasMore' = HasMoreAfter(r_hasMore, req.data)
    /\ r_received' = r_received \o req.data
    /\ r_short' = (r_short \/ Len(req.data) < pageSize)
    /\ r_last' = RStep("fetchOk", <<req.from, req.to>>, Len(req.data), r_devotions)
                 @@ [initial |-> req.initial, hasMoreBefore |-> r_hasMore]
    /\ r_failedWin' = <<>>
    /\ UNCHANGED r_error

\* loadDevotions(initial), from its await on: the answer of request i arrives
RLoadDevotionsSettle(i) ==
    /\ i \in DOMAIN r_net
    /\ r_net[i].status \in {"ok", "err"}
    /\ IF r_net[i].status = "err" THEN RSettleError(r_net[i]) ELSE RSettleSuccess(r_net[i])
    /\ r_loading' = FALSE
    /\ r_loadingMore' = FALSE
    /\ r_net' = RemoveAt(r_net, i)
    /\ UNCHANGED <<store, r_phase, r_selectedDevotion, r_overflow>>

\* a plausible slip: closeDevotion() leaves the page locked
OverflowWhen_NeverReleased(open) == "hidden"

\* document.body.style.overflow = 'hidden' / = ''
OverflowWhen(open) == IF open THEN "hidden" ELSE ""

\* openDevotion(devotion): a card of the grid or today's devotion is clicked
ROpenDevotion(devotion) ==
    /\ r_phase = "mounted"
    /\ r_selectedDevotion' = Some(devotion)
    /\ r_overflow' = OverflowWhen(TRUE)
    /\ r_last' = RStep("open", <<>>, 0, r_devotions)
                 @@ [devotion |-> devotion,
                     replaced |-> r_selectedDevotion \ {devotion} # {}]
    /\ UNCHANGED <<store, r_phase, r_devotions, r_loading, r_loadingMore, r_error,
                   r_hasMore, r_net, r_received, r_short, r_failedWin>>

\* a plausible slip: the modal can be closed only while no fetch is pending
RCloseDevotion_WhenIdle ==
    /\ r_phase = "mounted"
    /\ r_net = <<>>
    /\ r_selectedDevotion # None
    /\ r_selectedDevotion' = None
    /\ r_overflow' = OverflowWhen(FALSE)
    /\ r_last' = RStep("close", <<>>, 0, r_devotions)
    /\ UNCHANGED <<store, r_phase, r_devotions, r_loading, r_loadingMore, r_error,
                   r_hasMore, r_net, r_received, r_short, r_failedWin>>

\* closeDevotion()
RCloseDevotion ==
    /\ r_phase = "mounted"
    /\ r_selectedDevotion # None
    /\ r_selectedDevotion' = None
    /\ r_overflow' = OverflowWhen(FALSE)
    /\ r_last' = RStep("close", <<>>, 0, r_devotions)
    /\ UNCHANGED <<store, r_phase, r_devotions, r_loading, r_loadingMore, r_error,
                   r_hasMore, r_net, r_received, r_short, r_failedWin>>

\* the view is left (navigation to another route)
RUnmount ==
    /\ r_phase = "mounted"
    /\ r_phase' = "unmounted"
    /\ r_last' = RStep("unmount", <<>>, 0, r_devotions)
    /\ UNCHANGED <<store, r_devotions, r_loading, r_loadingMore, r_error, r_hasMore,
                   r_selectedDevotion, r_overflow, r_net, r_received, r_short,
                   r_failedWin>>

\* the refs of the reading view as its setup creates them
RSetup ==
    /\ r_devotions = <<>>
    /\ r_loading = TRUE
    /\ r_loadingMore = FALSE
    /\ r_error = NULL
    /\ r_hasMore = TRUE
    /\ r_selectedDevotion = None
    /\ r_overflow = ""
    /\ r_net = <<>>
    /\ r_last = RStep("setup", <<>>, 0, <<>>)
    /\ r_received = <<>>
    /\ r_short = FALSE
    /\ r_failedWin = <<>>

RInit ==
    /\ r_phase = "setup"
    /\ RSetup

(***************************************************************************)
(* Admin dashboard                                                         *)
(***************************************************************************)
Form(title, date, verse, content, editingId) ==
    [title |-> title, date |-> date, verse |-> verse, content |-> content,
     editingId |-> editingId]

\* what the operator can put into each field of the form
InputsOf ==
    [title   |-> {<<SP, "x">>},
     verse   |-> {<<"y", SP>>},
     content |-> {<<"z">>},
     date    |-> {"", "D2"}]

\* resetForm()
ResetForm == Form(<<>>, Today, <<>>, <<>>, None)

\* A request in flight.  status is "sent" until the store has carried it out
\* and "ok" from then on; a request that fails never changes the store.  form
\* and cache are history: the form and the cache when the request was issued.
AReq(kind, id, payload) ==
    [kind |-> kind, id |-> id, payload |-> payload, status |-> "sent", data |-> <<>>,
     form |-> IF kind \in {"insert", "update"} THEN a_form ELSE ResetForm,
     cache |-> IF kind = "update" THEN a_devotions ELSE <<>>,
     created |-> None]

\* the operator may start another store call
MaySend == Len(a_net) < MaxInFlight

\* steps of the operator that no claim looks back at
Other == [op |-> "other"]

AStep(op, id, patch, before) == [op |-> op, id |-> id, patch |-> patch, before |-> before]

NoPatch == <<>>

UserCanAct == a_phase \in {"session", "mounted"}

\* the list of existing devotions is rendered (v-if loading / v-else-if error /
\* v-else-if !devotions.length / v-else)
ListShown == ~a_loading /\ a_error = NULL /\ a_devotions # <<>>

\* loadDevotions(), up to its await
ALoadDevotionsStart(created) ==
    /\ a_loading' = TRUE
    /\ a_error' = NULL
    /\ a_net' = Append(a_net, [AReq("load", 0, NoPatch) EXCEPT !.created = created])
    /\ a_loads' = [a_loads EXCEPT !.newest = "pending"]

\* onMounted, up to await loadSession()
AMount ==
    /\ a_phase = "setup"
    /\ a_phase' = "session"
    /\ a_last' = Other
    /\ UNCHANGED <<store, nextId, a_devotions, a_loading, a_error, a_form,
                   a_submitting, a_net, a_now, a_loads, a_removed, a_born, a_steps>>

\* onMounted, from await loadSession() to await loadDevotions()
ASessionLoaded ==
    /\ a_phase = "session"
    /\ MaySend
    /\ a_phase' = "mounted"
    /\ ALoadDevotionsStart(None)
    /\ a_last' = AStep("loadSent", 0, NoPatch, a_devotions)
    /\ UNCHANGED <<store, nextId, a_devotions, a_form, a_submitting, a_now,
                   a_removed, a_born, a_steps>>

\* v-model on the title, date, verse and content inputs
AInput(field, value) ==
    /\ UserCanAct
    /\ a_steps < MaxSteps
    /\ a_form[field] # value
    /\ a_form' = [a_form EXCEPT ![field] = value]
    /\ a_steps' = a_steps + 1
    /\ a_last' = Other
    /\ UNCHANGED <<store, nextId, a_phase, a_devotions, a_loading, a_error,
                   a_submitting, a_net, a_now, a_loads, a_removed, a_born>>

\* the object handed to insert()
InsertPayload(form, devotionDate, now) ==
    [title |-> Trim(form.title), verse |-> Trim(form.verse),
     content |-> Trim(form.content), date |-> ToISOString(devotionDate),
     createdAt |-> now]

\* createDevotion(), up to its await; toISOString() throws on an invalid date
\* and the call ends there, after submitting and error have been set
ACreateDevotion ==
    /\ UserCanAct
    /\ ~a_submitting
    /\ a_form.editingId = None
    /\ MaySend
    /\ a_steps < MaxSteps
    /\ a_steps' = a_steps + 1
    /\ a_submitting' = TRUE
    /\ a_error' = NULL
    /\ LET devotionDate == NewDate(a_form.date)
       IN  IF devotionDate = NaN
           THEN /\ a_last' = AStep("createThrew", 0, NoPatch, a_devotions)
                /\ UNCHANGED <<a_net, a_now>>
           ELSE /\ a_net' = Append(a_net,
                        AReq("insert", 0, InsertPayload(a_form, devotionDate, a_now)))
                /\ a_now' = a_now + 1
                /\ a_last' = AStep("createSent", 0, NoPatch, a_devotions)
    /\ UNCHANGED <<store, nextId, a_phase, a_devotions, a_loading, a_form,
                   a_loads, a_removed, a_born>>

\* startEdit(devotion): the Edit button of a row of the list
AStartEdit(devotion) ==
    /\ UserCanAct
    /\ ListShown
    /\ LET d == NewDate(devotion.date)
       IN  a_form' = Form(devotion.title,
                          IF d # NaN THEN Slice10(ToISOString(d)) ELSE a_form.date,
                          devotion.verse, devotion.content, Some(devotion.id))
    /\ a_last' = Other
    /\ UNCHANGED <<store, nextId, a_phase, a_devotions, a_loading, a_error,
                   a_submitting, a_net, a_now, a_loads, a_removed, a_born, a_steps>>

\* cancelEdit()
ACancelEdit ==
    /\ UserCanAct
    /\ a_form.editingId # None
    /\ a_form' = ResetForm
    /\ a_last' = Other
    /\ UNCHANGED <<store, nextId, a_phase, a_devotions, a_loading, a_error,
                   a_submitting, a_net, a_now, a_loads, a_removed, a_born, a_steps>>

\* the object handed to update()
UpdatePayload(form, devotionDate) ==
    [title |-> Trim(form.title), verse |-> Trim(form.verse),
     content |-> Trim(form.content), date |-> ToISOString(devotionDate)]

\* updateDevotion(), up to its await
AUpdateDevotion ==
    /\ UserCanAct
    /\ ~a_submitting
    /\ a_form.editingId # None
    /\ MaySend
    /\ a_steps < MaxSteps
    /\ a_steps' = a_steps + 1
    /\ a_submitting' = TRUE
    /\ a_error' = NULL
    /\ LET devotionDate == NewDate(a_form.date)
           id == CHOOSE x \in a_form.editingId : TRUE
       IN  IF devotionDate = NaN
           THEN /\ a_last' = AStep("updateThrew", id, NoPatch, a_devotions)
                /\ UNCHANGED a_net
           ELSE /\ a_net' = Append(a_net,
                        AReq("update", id, UpdatePayload(a_form, devotionDate)))
                /\ a_last' = AStep("updateSent", id,
                                   UpdatePayload(a_form, devotionDate), a_devotions)
                                @@ [deleted |-> /\ id \in a_removed
                                                /\ id \notin Ids(a_devotions)]
    /\ UNCHANGED <<store, nextId, a_phase, a_devotions, a_loading, a_form, a_now,
                   a_loads, a_removed, a_born>>

\* deleteDevotion(devotion), up to its await: the Delete button of a row
ADeleteDevotion(devotion, confirmed) ==
    /\ UserCanAct
    /\ ListShown
    /\ MaySend
    /\ a_steps < MaxSteps
    /\ a_steps' = a_steps + 1
    /\ IF confirmed
       THEN /\ a_net' = Append(a_net, AReq("delete", devotion.id, NoPatch))
            /\ a_last' = AStep("deleteSent", devotion.id, NoPatch, a_devotions)
       ELSE /\ a_last' = Other
            /\ UNCHANGED a_net
    /\ UNCHANGED <<store, nextId, a_phase, a_devotions, a_loading, a_error, a_form,
                   a_submitting, a_now, a_loads, a_removed, a_born>>

\* update(patch).eq('id', id) at the store
StoreUpdated(rows, id, patch) ==
    {IF row.id = id
     THEN [row EXCEPT !.title = patch.title, !.verse = patch.verse,
                      !.content = patch.content, !.date = patch.date]
     ELSE row : row \in rows}

\* The store carries out the request at position i; its answer is on its way.
StoreServe(i) ==
    /\ i \in DOMAIN a_net
    /\ a_net[i].status = "sent"
    /\ LET req == a_net[i]
       IN  CASE req.kind = "load" ->
                  /\ a_net' = [a_net EXCEPT ![i].status = "ok",
                                            ![i].data = OrderByCreatedAtDesc(store)]
                  /\ UNCHANGED <<store, nextId, a_removed, a_born>>
             [] req.kind = "insert" ->
                  /\ store' = store \cup
                        {Devotion(nextId, req.payload.title, req.payload.verse,
                                  req.payload.content, req.payload.date,
                                  req.payload.createdAt)}
                  /\ nextId' = nextId + 1
                  /\ a_net' = [a_net EXCEPT ![i].status = "ok",
                                            ![i].created = Some(nextId)]
                  /\ a_born' = a_born \cup {<<nextId, req.payload.createdAt>>}
                  /\ UNCHANGED a_removed
             [] req.kind = "update" ->
                  /\ store' = StoreUpdated(store, req.id, req.payload)
                  /\ a_net' = [a_net EXCEPT ![i].status = "ok"]
                  /\ UNCHANGED <<nextId, a_removed, a_born>>
             [] req.kind = "delete" ->
                  /\ store' = {row \in store : row.id # req.id}
                  /\ a_removed' = a_removed \cup {req.id}
                  /\ a_net' = [a_net EXCEPT ![i].status = "ok"]
                  /\ UNCHANGED <<nextId, a_born>>
    /\ UNCHANGED <<a_phase, a_devotions, a_loading, a_error, a_form, a_submitting,
                   a_now, a_last, a_loads, a_steps>>

\* the answer of request i as it reaches the dashboard: the store's answer once
\* the store has carried the request out, an error (the store refused it or
\* could not be reached) as long as it has not
Answer(i) == IF a_net[i].status = "ok" THEN "ok" ELSE "err"

\* history: the load at position i settles; it is the load issued last when no
\* load issued after it is in flight or has settled
LoadsAfter(i, outcome) ==
    [last   |-> outcome,
     newest |-> IF /\ a_loads.newest = "pending"
                   /\ \A j \in (i + 1)..Len(a_net) : a_net[j].kind # "load"
                THEN outcome ELSE a_loads.newest]

\* loadDevotions(), from its await on
ALoadDevotionsSettle(i) ==
    /\ i \in DOMAIN a_net
    /\ a_net[i].kind = "load"
    /\ IF Answer(i) = "err"
       THEN /\ a_error' = "Unable to load devotions."
            /\ a_last' = AStep("loadFail", 0, NoPatch, a_devotions)
            /\ a_loads' = LoadsAfter(i, "err")
            /\ UNCHANGED a_devotions
       ELSE /\ a_devotions' = a_net[i].data
            /\ a_last' = AStep("loadOk", 0, NoPatch, a_devotions)
                         @@ [created |-> a_net[i].created]
            /\ a_loads' = LoadsAfter(i, "ok")
            /\ UNCHANGED a_error
    /\ a_loading' = FALSE
    /\ a_net' = RemoveAt(a_net, i)
    /\ UNCHANGED <<store, nextId, a_phase, a_form, a_submitting, a_now, a_removed,
                   a_born, a_steps>>

\* history of a settled call: the form when the call was submitted and just
\* before its continuation ran, whether the store held the row of the call
\* then, and the alert the continuation has raised (NULL when none)
Settled(submitted, id, alert) ==
    [form |-> submitted, formWas |-> a_form, absent |-> id \notin {row.id : row \in store},
     alert |-> alert]

\* alert('Unable to publish devotion. Please try again.') / alert('Devotion
\* published successfully.')
AlertAfterCreate(status) ==
    IF status = "err" THEN "Unable to publish devotion. Please try again."
    ELSE "Devotion published successfully."

\* a plausible slip: resetForm() runs before the error is looked at
FormAfterCreate_AlwaysResets(status, form) == ResetForm

\* if (insertError) { ...; return }  ...  resetForm()
FormAfterCreate(status, form) == IF status = "err" THEN form ELSE ResetForm

\* createDevotion(), from its await on: on success the form is reset and
\* loadDevotions() is started
ACreateDevotionSettle(i) ==
    /\ i \in DOMAIN a_net
    /\ a_net[i].kind = "insert"
    /\ a_submitting' = FALSE
    /\ a_form' = FormAfterCreate(Answer(i), a_form)
    /\ IF Answer(i) = "err"
       THEN /\ a_last' = AStep("createFail", 0, NoPatch, a_devotions)
                         @@ Settled(a_net[i].form, 0, AlertAfterCreate("err"))
            /\ a_net' = RemoveAt(a_net, i)
            /\ UNCHANGED <<a_loading, a_error, a_loads>>
       ELSE /\ a_loading' = TRUE
            /\ a_error' = NULL
            /\ a_net' = Append(RemoveAt(a_net, i),
                               [AReq("load", 0, NoPatch)
                                  EXCEPT !.created = a_net[i].created,
                                         !.form = ResetForm])
            /\ a_loads' = [a_loads EXCEPT !.newest = "pending"]
            /\ a_last' = AStep("createOk", 0, NoPatch, a_devotions)
                         @@ [created |-> a_net[i].created]
                         @@ Settled(a_net[i].form, 0, AlertAfterCreate("ok"))
    /\ UNCHANGED <<store, nextId, a_phase, a_devotions, a_now, a_removed,
                   a_born, a_steps>>

\* a plausible slip: the patched entry is rebuilt from the form alone
PatchEntry_DropsExisting(cache, editingId, form, devotionDate) ==
    [i \in DOMAIN cache |->
        IF i = CHOOSE j \in DOMAIN cache :
                   /\ Some(cache[j].id) = editingId
                   /\ \A k \in 1..(j - 1) : Some(cache[k].id) # editingId
        THEN Devotion(cache[i].id, Trim(form.title), Trim(form.verse),
                      Trim(form.content), ToISOString(devotionDate), 0)
        ELSE cache[i]]

\* devotions.value[index] = { ...existing, title, verse, content, date } at
\* index = findIndex((d) => d.id === editingId.value), which is found
PatchEntry(cache, editingId, form, devotionDate) ==
    [i \in DOMAIN cache |->
        IF i = CHOOSE j \in DOMAIN cache :
                   /\ Some(cache[j].id) = editingId
                   /\ \A k \in 1..(j - 1) : Some(cache[k].id) # editingId
        THEN [cache[i] EXCEPT !.title = Trim(form.title),
                              !.verse = Trim(form.verse),
                              !.content = Trim(form.content),
                              !.date = ToISOString(devotionDate)]
        ELSE cache[i]]

\* a plausible slip: the answer's error is not looked at
CacheAfterUpdate_IgnoresError(status, cache, editingId, form, devotionDate) ==
    IF \E j \in DOMAIN cache : Some(cache[j].id) = editingId
    THEN PatchEntry(cache, editingId, form, devotionDate)
    ELSE cache

\* if (updateError) return; ... if (index !== -1) { devotions.value[index] = ... }
CacheAfterUpdate(status, cache, editingId, form, devotionDate) ==
    IF status = "ok" /\ \E j \in DOMAIN cache : Some(cache[j].id) = editingId
    THEN PatchEntry(cache, editingId, form, devotionDate)
    ELSE cache

\* alert('Unable to update devotion. Please try again.') / alert('Devotion
\* updated successfully.')
AlertAfterUpdate(status) ==
    IF status = "err" THEN "Unable to update devotion. Please try again."
    ELSE "Devotion updated successfully."

\* if (updateError) { ...; return }  ...  resetForm()
FormAfterUpdate(status, form) == IF status = "err" THEN form ELSE ResetForm

\* updateDevotion(), from its await on: editingId and the form are read again,
\* devotionDate is the constant computed before the await
AUpdateDevotionSettle(i) ==
    /\ i \in DOMAIN a_net
    /\ a_net[i].kind = "update"
    /\ a_submitting' = FALSE
    /\ a_devotions' = CacheAfterUpdate(Answer(i), a_devotions, a_form.editingId,
                                       a_form, NewDate(a_net[i].form.date))
    /\ a_form' = FormAfterUpdate(Answer(i), a_form)
    /\ IF Answer(i) = "err"
       THEN a_last' = AStep("updateFail", a_net[i].id, a_net[i].payload, a_devotions)
                      @@ Settled(a_net[i].form, a_net[i].id, AlertAfterUpdate("err"))
       ELSE a_last' = AStep("updateOk", a_net[i].id, a_net[i].payload, a_devotions)
                      @@ [undisturbed |-> /\ a_form = a_net[i].form
                                          /\ a_devotions = a_net[i].cache]
                      @@ Settled(a_net[i].form, a_net[i].id, AlertAfterUpdate("ok"))
    /\ a_net' = RemoveAt(a_net, i)
    /\ UNCHANGED <<store, nextId, a_phase, a_loading, a_error, a_now, a_loads,
                   a_removed, a_born, a_steps>>

\* a plausible slip: the filter keeps the entry it should drop
FilterOut_Inverted(cache, id) == SelectSeq(cache, LAMBDA d : d.id = id)

\* devotions.value.filter((d) => d.id !== devotion.id)
FilterOut(cache, id) == SelectSeq(cache, LAMBDA d : d.id # id)

\* a plausible slip: the answer's error is not looked at
CacheAfterDelete_IgnoresError(status, cache, id) == FilterOut(cache, id)

\* if (deleteError) return; devotions.value = devotions.value.filter(...)
CacheAfterDelete(status, cache, id) ==
    IF status = "ok" THEN FilterOut(cache, id) ELSE cache

\* a plausible slip: the failure branch returns without its alert
AlertAfterDelete_Silent(status) == NULL

\* if (deleteError) { alert('Unable to delete devotion.'); return }
AlertAfterDelete(status) ==
    IF status = "err" THEN "Unable to delete devotion." ELSE NULL

\* deleteDevotion(devotion), from its await on
ADeleteDevotionSettle(i) ==
    /\ i \in DOMAIN a_net
    /\ a_net[i].kind = "delete"
    /\ a_devotions' = CacheAfterDelete(Answer(i), a_devotions, a_net[i].id)
    /\ a_last' = AStep(IF Answer(i) = "ok" THEN "deleteOk" ELSE "deleteFail",
                       a_net[i].id, NoPatch, a_devotions)
                 @@ Settled(a_net[i].form, a_net[i].id, AlertAfterDelete(Answer(i)))
    /\ a_net' = RemoveAt(a_net, i)
    /\ UNCHANGED <<store, nextId, a_phase, a_loading, a_error, a_form, a_submitting,
                   a_now, a_loads, a_removed, a_born, a_steps>>

\* the dashboard is left (sign out, navigation)
AUnmount ==
    /\ a_phase \in {"session", "mounted"}
    /\ a_phase' = "unmounted"
    /\ a_last' = Other
    /\ UNCHANGED <<store, nextId, a_devotions, a_loading, a_error, a_form,
                   a_submitting, a_net, a_now, a_loads, a_removed, a_born, a_steps>>

\* new Date() when the dashboard starts: later than the creation of every row
\* the store holds then
FirstClock == 100 + MaxAdminStore + 1

\* the refs of the dashboard as its setup creates them
ASetup ==
    /\ a_devotions = <<>>
    /\ a_loading = TRUE
    /\ a_error = NULL
    /\ a_form = ResetForm
    /\ a_submitting = FALSE
    /\ a_net = <<>>
    /\ a_now = FirstClock
    /\ a_last = AStep("setup", 0, NoPatch, <<>>)
    /\ a_loads = [last |-> "none", newest |-> "none"]
    /\ a_removed = {}
    /\ a_born = {<<row.id, row.createdAt>> : row \in store}
    /\ a_steps = 0

AInit ==
    /\ a_phase = "setup"
    /\ ASetup

\* a create that succeeds starts its reload whatever is in flight
MaxNet == MaxInFlight + 1

AdminInit ==
    /\ \E n \in 0..MaxAdminStore :
          /\ store = {Seeded(i) : i \in 1..n}
          /\ nextId = n + 1
    /\ AInit
    /\ RInit
    /\ GInit

AdminNext ==
    \/ AMount /\ UNCHANGED <<rvars, gvars>>
    \/ ASessionLoaded /\ UNCHANGED <<rvars, gvars>>
    \/ \E f \in DOMAIN InputsOf : \E v \in InputsOf[f] : AInput(f, v) /\ UNCHANGED <<rvars, gvars>>
    \/ ACreateDevotion /\ UNCHANGED <<rvars, gvars>>
    \/ \E i \in 1..Len(a_devotions) : AStartEdit(a_devotions[i]) /\ UNCHANGED <<rvars, gvars>>
    \/ ACancelEdit /\ UNCHANGED <<rvars, gvars>>
    \/ AUpdateDevotion /\ UNCHANGED <<rvars, gvars>>
    \/ \E i \in 1..Len(a_devotions), c \in BOOLEAN :
          ADeleteDevotion(a_devotions[i], c) /\ UNCHANGED <<rvars, gvars>>
    \/ \E i \in 1..MaxNet : StoreServe(i) /\ UNCHANGED <<rvars, gvars>>
    \/ \E i \in 1..MaxNet : ALoadDevotionsSettle(i) /\ UNCHANGED <<rvars, gvars>>
    \/ \E i \in 1..MaxNet : ACreateDevotionSettle(i) /\ UNCHANGED <<rvars, gvars>>
    \/ \E i \in 1..MaxNet : AUpdateDevotionSettle(i) /\ UNCHANGED <<rvars, gvars>>
    \/ \E i \in 1..MaxNet : ADeleteDevotionSettle(i) /\ UNCHANGED <<rvars, gvars>>
    \/ AUnmount /\ UNCHANGED <<rvars, gvars>>

AdminSpec == AdminInit /\ [][AdminNext]_vars

ReaderInit ==
    /\ \E n \in 0..MaxStore :
          /\ store = {Seeded(i) : i \in 1..n}
          /\ nextId = n + 1
    /\ RInit
    /\ AInit
    /\ GInit

ReaderNext ==
    \/ RMount /\ UNCHANGED <<avars, gvars>>
    \/ \E b \in BOOLEAN : RSentinel(b) /\ UNCHANGED <<avars, gvars>>
    \/ \E i \in 1..MaxInFlight, fails \in BOOLEAN :
          StoreServePage(i, fails) /\ UNCHANGED <<avars, gvars>>
    \/ \E i \in 1..MaxInFlight : RLoadDevotionsSettle(i) /\ UNCHANGED <<avars, gvars>>
    \/ \E i \in 1..Len(r_devotions) : ROpenDevotion(r_devotions[i]) /\ UNCHANGED <<avars, gvars>>
    \/ RCloseDevotion /\ UNCHANGED <<avars, gvars>>
    \/ RUnmount /\ UNCHANGED <<avars, gvars>>

ReaderSpec == ReaderInit /\ [][ReaderNext]_vars

(***************************************************************************)
(* One browser tab: the router shows the reading view ('/') or the         *)
(* dashboard ('/admin'), and the tab stays on the view it has opened.      *)
(***************************************************************************)
TabInit ==
    /\ \E n \in 0..MaxAdminStore :
          /\ store = {Seeded(i) : i \in 1..n}
          /\ nextId = n + 1
    /\ RSetup
    /\ ASetup
    /\ GInit
    /\ \/ r_phase = "setup" /\ a_phase = "unmounted"
       \/ r_phase = "unmounted" /\ a_phase = "setup"

TabNext ==
    \/ ReaderNext
    \/ AdminNext

TabSpec == TabInit /\ [][TabNext]_vars

(***************************************************************************)
(* The site: a visitor's reading view and, in another browser, the         *)
(* operator's dashboard, on the same store.  The operator publishes or     *)
(* deletes while the visitor reads.                                        *)
(***************************************************************************)
SiteInit ==
    /\ \E n \in 0..pageSize :
          /\ store = {Seeded(i) : i \in 1..n}
          /\ nextId = n + 1
    /\ RInit
    /\ AInit
    /\ GInit

OperatorNext ==
    \/ AMount /\ UNCHANGED <<rvars, gvars>>
    \/ ASessionLoaded /\ UNCHANGED <<rvars, gvars>>
    \/ a_steps < MaxSiteSteps /\ ACreateDevotion /\ UNCHANGED <<rvars, gvars>>
    \/ \E i \in 1..Len(a_devotions), c \in BOOLEAN :
          a_steps < MaxSiteSteps /\ ADeleteDevotion(a_devotions[i], c)
                                 /\ UNCHANGED <<rvars, gvars>>
    \/ \E i \in 1..MaxNet : StoreServe(i) /\ UNCHANGED <<rvars, gvars>>
    \/ \E i \in 1..MaxNet : ALoadDevotionsSettle(i) /\ UNCHANGED <<rvars, gvars>>
    \/ \E i \in 1..MaxNet : ACreateDevotionSettle(i) /\ UNCHANGED <<rvars, gvars>>
    \/ \E i \in 1..MaxNet : ADeleteDevotionSettle(i) /\ UNCHANGED <<rvars, gvars>>

SiteNext ==
    \/ ReaderNext
    \/ OperatorNext

SiteSpec == SiteInit /\ [][SiteNext]_vars

\* The reading view kept open by a reader who scrolls on, over a store that
\* answers every request: the view is mounted, the sentinel reports, the
\* store serves and the answers arrive.
ReaderLiveNext ==
    \/ RMount /\ UNCHANGED <<avars, gvars>>
    \/ \E b \in BOOLEAN : RSentinel(b) /\ UNCHANGED <<avars, gvars>>
    \/ \E i \in 1..MaxInFlight : StoreServePage(i, FALSE) /\ UNCHANGED <<avars, gvars>>
    \/ \E i \in 1..MaxInFlight : RLoadDevotionsSettle(i) /\ UNCHANGED <<avars, gvars>>
    \/ \E i \in 1..Len(r_devotions) : ROpenDevotion(r_devotions[i]) /\ UNCHANGED <<avars, gvars>>
    \/ RCloseDevotion /\ UNCHANGED <<avars, gvars>>

\* no request of the reading view waits for the store
AllServed == \A i \in DOMAIN r_net : r_net[i].status # "sent"

\* onMounted runs, the observer keeps reporting the visible sentinel, the
\* store answers every request (no request waits for ever: only
\* StoreServePage changes the status "sent") and every answer is delivered
ReaderLiveSpec ==
    /\ ReaderInit
    /\ [][ReaderLiveNext]_vars
    /\ WF_vars(RMount /\ UNCHANGED <<avars, gvars>>)
    /\ WF_vars(RSentinel(TRUE) /\ UNCHANGED <<avars, gvars>>)
    /\ []<>AllServed
    /\ WF_vars(\E i \in 1..MaxInFlight : RLoadDevotionsSettle(i) /\ UNCHANGED <<avars, gvars>>)

(***************************************************************************)
(* Navigation: a visitor or the operator moves between the routes, signs   *)
(* in and out.                                                             *)
(***************************************************************************)
GuardInit ==
    /\ store = {}
    /\ nextId = 1
    /\ RInit
    /\ AInit
    /\ GInit

GuardNext ==
    \/ \E p \in Targets : GNavigate(p) /\ UNCHANGED <<store, rvars, avars>>
    \/ \E fails \in BOOLEAN : GetSessionServe(fails) /\ UNCHANGED <<store, rvars, avars>>
    \/ AuthGuardSettle /\ UNCHANGED <<store, rvars, avars>>
    \/ GHandleLogin /\ UNCHANGED <<store, rvars, avars>>
    \/ \E ok \in BOOLEAN : SignInServe(ok) /\ UNCHANGED <<store, rvars, avars>>
    \/ GHandleLoginSettle /\ UNCHANGED <<store, rvars, avars>>
    \/ GSignOut /\ UNCHANGED <<store, rvars, avars>>
    \/ SignOutServe /\ UNCHANGED <<store, rvars, avars>>
    \/ GSignOutSettle /\ UNCHANGED <<store, rvars, avars>>
    \/ SessionEnds /\ UNCHANGED <<store, rvars, avars>>

GuardSpec == GuardInit /\ [][GuardNext]_vars

(***************************************************************************)
(* Claims about the paginated reading view                                 *)
(***************************************************************************)
Offset == Len(r_devotions)

Idle == ~r_loading /\ ~r_loadingMore /\ r_net = <<>>

\* C1: at most one page fetch is in flight in every reachable state: a
\* sentinel-visible event that arrives while the initial load or an earlier
\* loadDevotions(false) has not settled issues no request.
C1_SingleFlight == Len(r_net) <= 1

\* a visible sentinel was ignored while the second page was still in flight
C1_Witness ==
    /\ r_last.op = "sentinelIgnored"
    /\ r_last.visible
    /\ Len(r_net) = 1
    /\ r_loadingMore
    /\ r_net[1].from = pageSize

\* C2: once a page fetch has returned fewer than pageSize items, hasMore is
\* false, no fetch is in flight and none is issued again, whatever sentinel
\* events follow.
C2_ExhaustedIsTerminal ==
    r_short => /\ ~r_hasMore
               /\ r_net = <<>>
               /\ r_last.op \notin {"fetchSent", "initialSent"}

\* a visible sentinel arrived after a short second page and was ignored
C2_Witness ==
    /\ r_short
    /\ r_last.op = "sentinelIgnored"
    /\ r_last.visible
    /\ Len(r_devotions) > pageSize

\* C3: the cache is the concatenation, in fetch order, of the pages received
\* since the initial load, its length is the sum of their sizes, and a page
\* load keeps the entries already cached where they are.
C3_CacheIsConcatenation ==
    /\ r_devotions = r_received
    /\ (r_last.op = "fetchOk" /\ ~r_last.initial) =>
          /\ Len(r_devotions) = Len(r_last.before) + r_last.n
          /\ SubSeq(r_devotions, 1, Len(r_last.before)) = r_last.before

\* two loadNext() calls have succeeded after the initial load
C3_Witness ==
    /\ r_last.op = "fetchOk"
    /\ ~r_last.initial
    /\ r_last.n > 0
    /\ Len(r_last.before) = 2 * pageSize

\* C4: a failed loadNext() leaves the trigger Idle with the error set, the
\* cache, the offset and hasMore as they were, and the next request asks for
\* the window of the failed fetch again.
C4_FailureRetriesSameWindow ==
    /\ (r_last.op = "fetchFail" /\ ~r_last.initial) =>
          /\ Idle
          /\ r_error # NULL
          /\ r_devotions = r_last.before
          /\ r_hasMore
          /\ r_last.win = <<Offset, Offset + pageSize - 1>>
    /\ (r_last.op = "fetchSent" /\ r_last.retryOf # <<>>) =>
          r_last.win = r_last.retryOf

\* the window of a failed loadNext() has been requested again
C4_Witness ==
    /\ r_last.op = "fetchSent"
    /\ r_last.retryOf # <<>>
    /\ r_last.retryOf[1] >= pageSize
    /\ r_error # NULL

\* the parts of C5 that hold however many items a fetch receives
C5_OffsetCounts ==
    /\ r_last.op \in {"fetchSent", "initialSent"} => r_last.win[1] = Len(r_received)
    /\ r_last.op = "fetchOk" =>
          /\ Offset = Len(r_last.before) + r_last.n
          /\ r_last.n < pageSize => ~r_hasMore

\* C5 as stated: every requested window starts at the number of items received
\* so far, every successful fetch moves the offset strictly forward by the
\* number of items received, and a short page marks the window exhausted.
C5_Original ==
    /\ C5_OffsetCounts
    /\ r_last.op = "fetchOk" => Offset > Len(r_last.before)

\* C5 amended: as C5, but the offset moves strictly forward only when the
\* fetch has received at least one item; an empty page leaves it where it was.
C5_OffsetAdvancesByReceived ==
    /\ C5_OffsetCounts
    /\ (r_last.op = "fetchOk" /\ r_last.n > 0) => Offset > Len(r_last.before)
    /\ (r_last.op = "fetchOk" /\ r_last.n = 0) => Offset = Len(r_last.before)

\* a loadNext() has received an empty page: the store holds pageSize records
C5_Witness ==
    /\ r_last.op = "fetchOk"
    /\ ~r_last.initial
    /\ r_last.n = 0
    /\ Offset = pageSize
    /\ ~r_hasMore

(***************************************************************************)
(* Claims about the admin dashboard                                        *)
(***************************************************************************)
\* the position of the entry with this id, 0 when the cache has none
PositionOf(cache, id) ==
    IF \E i \in DOMAIN cache : cache[i].id = id
    THEN CHOOSE i \in DOMAIN cache : cache[i].id = id
    ELSE 0

MutableFields == {"title", "verse", "content", "date"}

\* C6: after a store update of the record being edited has succeeded with
\* nothing else done in between, the cache entry with that id holds the fields
\* of the patch, keeps its id, its createdAt and its position, and every other
\* entry is as it was; the createdAt of a row is the one of its insert, in the
\* store and in the cache, and no update sent to the store carries a createdAt.
C6_UpdatePatchesInPlace ==
    /\ (a_last.op = "updateOk" /\ a_last.undisturbed) =>
          /\ Len(a_devotions) = Len(a_last.before)
          /\ \A i \in DOMAIN a_last.before :
                IF a_last.before[i].id = a_last.id
                THEN a_devotions[i] =
                        Devotion(a_last.id, a_last.patch.title, a_last.patch.verse,
                                 a_last.patch.content, a_last.patch.date,
                                 a_last.before[i].createdAt)
                ELSE a_devotions[i] = a_last.before[i]
    /\ \A row \in store : <<row.id, row.createdAt>> \in a_born
    /\ \A i \in DOMAIN a_devotions :
          <<a_devotions[i].id, a_devotions[i].createdAt>> \in a_born
    /\ \A i \in DOMAIN a_net :
          a_net[i].kind = "update" => DOMAIN a_net[i].payload = MutableFields

\* the second entry of the cache was edited and its update has succeeded, or
\* the first one was and the patch has changed its title
C6_Witness ==
    /\ a_last.op = "updateOk"
    /\ a_last.undisturbed
    /\ Len(a_last.before) = 2
    /\ \/ PositionOf(a_last.before, a_last.id) = 2
       \/ /\ PositionOf(a_last.before, a_last.id) = 1
          /\ a_devotions[1].title # a_last.before[1].title

\* C7: after deleteDevotion has succeeded at the store for id X, the cache is
\* the cache before it without the entry of X: one entry fewer if X was in it,
\* the same cache if not; the other entries keep their order and their fields.
C7_DeleteRemovesExactlyOne ==
    a_last.op = "deleteOk" =>
        LET at == PositionOf(a_last.before, a_last.id)
        IN  /\ a_last.id \notin Ids(a_devotions)
            /\ IF at = 0
               THEN a_devotions = a_last.before
               ELSE /\ Len(a_devotions) = Len(a_last.before) - 1
                    /\ a_devotions = RemoveAt(a_last.before, at)

\* a delete has succeeded for an entry of a cache of two
C7_Witness ==
    /\ a_last.op = "deleteOk"
    /\ Len(a_last.before) = 2
    /\ PositionOf(a_last.before, a_last.id) # 0

\* C8: a create, update or delete leaves the cache as it is when it is sent
\* and when it fails; the cache changes only in the continuation of a call
\* the store has answered with success.
C8_NoCacheChangeWithoutSuccess ==
    a_last.op \in {"createSent", "createThrew", "createFail", "updateSent",
                   "updateThrew", "updateFail", "deleteSent", "deleteFail"}
        => a_devotions = a_last.before

\* an update or a delete of an entry of the cache has failed
C8_Witness ==
    /\ a_last.op \in {"updateFail", "deleteFail"}
    /\ a_last.id \in Ids(a_devotions)

IsSortedByCreatedAtDesc(cache) ==
    \A i, j \in DOMAIN cache : i < j => cache[i].createdAt >= cache[j].createdAt

\* C9 as stated: when the reload started by a successful createDevotion has
\* completed, the new record is the first element of the cache.
C9_Original ==
    (a_last.op = "loadOk" /\ a_last.created # None) =>
        /\ a_devotions # <<>>
        /\ Some(a_devotions[1].id) = a_last.created

\* C9 amended: when the reload started by a successful createDevotion has
\* completed with success, the cache is in creation-timestamp-descending
\* order and, unless the store has deleted the new record meanwhile, holds
\* the new record, before every record that was created earlier: it is the
\* first element unless a record created after it is in the cache.
C9_NewRecordInCreationOrder ==
    (a_last.op = "loadOk" /\ a_last.created # None) =>
        /\ IsSortedByCreatedAtDesc(a_devotions)
        /\ \A n \in a_last.created \ a_removed :
              /\ PositionOf(a_devotions, n) # 0
              /\ \A j \in 1..(PositionOf(a_devotions, n) - 1) :
                    a_devotions[j].createdAt >
                       a_devotions[PositionOf(a_devotions, n)].createdAt
              /\ \A j \in (PositionOf(a_devotions, n) + 1)..Len(a_devotions) :
                    a_devotions[j].createdAt <
                       a_devotions[PositionOf(a_devotions, n)].createdAt

\* the reload of a create has completed on a cache of three: the new record
\* and the two rows the store held before
C9_Witness ==
    /\ a_last.op = "loadOk"
    /\ a_last.created # None
    /\ Len(a_devotions) = 3
    /\ Some(a_devotions[1].id) = a_last.created

\* C10: whenever no request of the dashboard is in flight and the last load
\* has succeeded (the one that settled last and the one that was issued
\* last), the cache holds exactly the rows of the store, with their fields,
\* in creation-timestamp-descending order.
C10_CacheConsistentWithStore ==
    (a_net = <<>> /\ a_loads.last = "ok" /\ a_loads.newest = "ok")
        => a_devotions = OrderByCreatedAtDesc(store)

(***************************************************************************)
(* Claims about the reading view on a store that changes, and scenarios    *)
(***************************************************************************)
\* C11: the cache of the reading view never holds two entries with the same
\* id, also when the operator inserts or deletes records between two page
\* fetches.
C11_NoDuplicateIds ==
    \A i, j \in DOMAIN r_devotions :
        i # j => r_devotions[i].id # r_devotions[j].id

\* the records created at T(hi) down to T(lo), newest first
Created(hi, lo) == [i \in 1..(hi - lo + 1) |-> Seeded(hi + 1 - i)]

\* C12: with pageSize = 9 on a static store of 20 records created at
\* T1 < ... < T20, the initial load yields T20..T12 and leaves hasMore true,
\* the first loadDevotions(false) appends T11..T3 and leaves hasMore true,
\* the second appends T2, T1 and sets hasMore false, and from then on no
\* fetch is issued, whatever the sentinel reports.
C12_TwentyRecordScenario ==
    (pageSize = 9 /\ store = {Seeded(i) : i \in 1..20}) =>
        /\ (r_last.op = "fetchOk" /\ r_last.initial) =>
              /\ r_devotions = Created(20, 12)
              /\ r_hasMore
        /\ (r_last.op = "fetchOk" /\ ~r_last.initial /\ Len(r_last.before) = 9) =>
              /\ r_devotions = Created(20, 3)
              /\ SubSeq(r_devotions, 10, 18) = Created(11, 3)
              /\ r_hasMore
        /\ (r_last.op = "fetchOk" /\ ~r_last.initial /\ Len(r_last.before) = 18) =>
              /\ r_devotions = Created(20, 1)
              /\ SubSeq(r_devotions, 19, 20) = Created(2, 1)
              /\ ~r_hasMore
        /\ Len(r_devotions) = 20 =>
              /\ ~r_hasMore
              /\ r_net = <<>>
              /\ r_last.op # "fetchSent"

\* the sentinel has become visible after the third page of the scenario and
\* no fetch was issued
C12_Witness ==
    /\ store = {Seeded(i) : i \in 1..20}
    /\ r_devotions = Created(20, 1)
    /\ r_last.op = "sentinelIgnored"
    /\ r_last.visible
    /\ r_net = <<>>

\* C13: loadDevotions(true) empties the cache, sets hasMore true and requests
\* the window [0, pageSize - 1]; when it succeeds the cache is the answer,
\* the first pageSize rows of the store; as long as it has not settled,
\* loading is true, it is the only request, and a visible sentinel issues none.
C13_InitialLoad ==
    /\ r_last.op = "initialSent" =>
          /\ r_devotions = <<>>
          /\ Offset = 0
          /\ r_hasMore
          /\ r_last.win = <<0, pageSize - 1>>
    /\ (r_last.op = "fetchOk" /\ r_last.initial) =>
          /\ r_last.win = <<0, pageSize - 1>>
          /\ r_devotions = Range(OrderByCreatedAtDesc(store), 0, pageSize - 1)
          /\ Offset = r_last.n
    /\ r_phase = "setup" => ~Idle /\ r_net = <<>>
    /\ \A i \in DOMAIN r_net :
          r_net[i].initial => /\ r_loading
                              /\ ~Idle
                              /\ r_net = <<r_net[i]>>
                              /\ r_last.op # "fetchSent"

\* a visible sentinel was ignored while the initial load was in flight
C13_Witness ==
    /\ r_last.op = "sentinelIgnored"
    /\ r_last.visible
    /\ Len(r_net) = 1
    /\ r_net[1].initial
    /\ r_hasMore

\* C16: at most one devotion is open, and the page is locked exactly when one
\* is: openDevotion(d) makes d the selection and locks the page, also when
\* another devotion was open, closeDevotion() clears the selection and
\* releases the lock.
C16_SingleSelectionAndLock ==
    /\ Cardinality(r_selectedDevotion) <= 1
    /\ r_overflow \in {"", "hidden"}
    /\ (r_overflow = "hidden") <=> (r_selectedDevotion # None)
    /\ r_last.op = "open" =>
          /\ r_selectedDevotion = Some(r_last.devotion)
          /\ r_overflow = "hidden"
    /\ r_last.op = "close" =>
          /\ r_selectedDevotion = None
          /\ r_overflow = ""

\* a devotion was opened while another one was open
C16_Witness ==
    /\ r_last.op = "open"
    /\ r_last.replaced
    /\ r_selectedDevotion = Some(r_last.devotion)

(***************************************************************************)
(* Claims about failures, unmounting and the two views side by side        *)
(***************************************************************************)
\* C14: when an update or a delete is answered with an error while the store
\* no longer holds the row (NotFoundError), the continuation raises its
\* alert and leaves the cache as it was: the entry with that id is neither
\* patched nor removed.
C14_NotFoundLeavesCacheUntouched ==
    (a_last.op \in {"updateFail", "deleteFail"} /\ a_last.absent) =>
        /\ a_last.alert # NULL
        /\ a_devotions = a_last.before
        /\ \A i \in DOMAIN a_last.before :
              a_last.before[i].id = a_last.id => a_devotions[i] = a_last.before[i]

\* an update was answered with an error after the store had deleted its row,
\* and the cache still holds the entry
C14_Witness ==
    /\ a_last.op = "updateFail"
    /\ a_last.absent
    /\ a_last.id \in Ids(a_devotions)

\* what C15 says of a create or an update the store has answered with success
C15_ResetAfterSuccess ==
    a_last.op \in {"createOk", "updateOk"} => a_form = ResetForm /\ ~a_submitting

\* C15 as stated: when createDevotion or updateDevotion fails at the store,
\* the form is exactly what it was when the request was submitted and
\* submitting is false again; the form is reset only after a success.
C15_Original ==
    /\ a_last.op \in {"createFail", "updateFail"} =>
          /\ a_form = a_last.form
          /\ ~a_submitting
    /\ C15_ResetAfterSuccess

\* C15 amended: when createDevotion or updateDevotion fails at the store, its
\* continuation leaves the form as it is at that moment, which is the form
\* that was submitted unless the operator has changed it while the request
\* was in flight, and submitting is false again; the continuation resets
\* the form only after a success.
C15_FailureKeepsForm ==
    /\ a_last.op \in {"createFail", "updateFail"} =>
          /\ a_form = a_last.formWas
          /\ a_last.formWas = a_last.form => a_form = a_last.form
          /\ ~a_submitting
    /\ C15_ResetAfterSuccess

\* a create or an update has failed and the form still holds what the
\* operator had submitted
C15_Witness ==
    /\ a_last.op \in {"createFail", "updateFail"}
    /\ a_form = a_last.form
    /\ a_form # ResetForm
    /\ ~a_submitting

\* C17: once deleteDevotion has succeeded for the devotion that is open in
\* the reading view, the selection no longer refers to the removed record.
C17_SelectionClearedOnDelete ==
    a_last.op = "deleteOk" =>
        \A d \in r_selectedDevotion : d.id # a_last.id

\* C18: the answer of a request that arrives after its view has unmounted is
\* discarded: it changes neither the cache (and with it the offset), nor
\* hasMore, the loading flags or the error of that view.
C18_AnswerAfterUnmountIsDiscarded ==
    [][/\ r_phase = "unmounted" =>
             UNCHANGED <<r_devotions, r_hasMore, r_loading, r_loadingMore, r_error>>
       /\ a_phase = "unmounted" =>
             UNCHANGED <<a_devotions, a_loading, a_error>>]_vars

\* the error message of the view is on the page
RErrorShown == r_error # NULL /\ ~(r_loading /\ r_devotions = <<>>)

AErrorShown == a_error # NULL /\ ~a_loading

\* C19: every store operation that fails while its view is mounted is
\* reported: a failed page fetch and a failed load leave the error message on
\* the page, a failed insert, update or delete raises an alert.
C19_FailuresAreReported ==
    /\ (r_phase = "mounted" /\ r_last.op = "fetchFail") => RErrorShown
    /\ (a_phase # "unmounted" /\ a_last.op = "loadFail") => AErrorShown
    /\ (a_phase # "unmounted"
          /\ a_last.op \in {"createFail", "updateFail", "deleteFail"}) =>
          a_last.alert # NULL

\* a delete has failed on the mounted dashboard
C19_Witness ==
    /\ a_phase = "mounted"
    /\ a_last.op = "deleteFail"
    /\ a_last.alert = "Unable to delete devotion."

\* C20: when a store update succeeds for an id that has no entry in the
\* cache, the cache is left as it was.
C20_UpdateOfAbsentEntryIsNoOp ==
    (a_last.op = "updateOk" /\ a_last.id \notin Ids(a_last.before)) =>
        a_devotions = a_last.before

(***************************************************************************)
(* Claims about the dashboard while requests are in flight                 *)
(***************************************************************************)
\* the cache with the entry of this id holding the fields of the patch
Projected(cache, id, patch) ==
    [i \in DOMAIN cache |->
        IF cache[i].id = id
        THEN [cache[i] EXCEPT !.title = patch.title, !.verse = patch.verse,
                              !.content = patch.content, !.date = patch.date]
        ELSE cache[i]]

\* C21: the patch that updateDevotion applies to the cache is the projection
\* of the request the store has confirmed: the entry with the id that was
\* sent receives the field values that were sent and no other entry changes,
\* also when startEdit, cancelEdit or an input has happened while the
\* request was in flight.
C21_PatchIsProjectionOfRequest ==
    a_last.op = "updateOk" =>
        a_devotions = Projected(a_last.before, a_last.id, a_last.patch)

\* deleteDevotion has succeeded for this id and the cache does not hold it
DeletedFromCache(x) ==
    /\ x \in a_removed
    /\ x \notin Ids(a_devotions)
    /\ \A i \in DOMAIN a_net : ~(a_net[i].kind = "delete" /\ a_net[i].id = x)

\* C22: once deleteDevotion has succeeded for an id and the cache no longer
\* holds it, no later step brings it back into the cache, also when the
\* answer of a loadDevotions that was in flight during the delete arrives
\* afterwards.
C22_DeletedNeverReappears ==
    [][\A x \in a_removed : DeletedFromCache(x) => x \notin Ids(a_devotions')]_vars

\* C23: whenever no load is in flight, editingId is null or the id of an
\* entry of the cache, and updateDevotion is never sent for a record that
\* deleteDevotion has removed from the store and from the cache.
C23_EditingIdInCache ==
    /\ (\A i \in DOMAIN a_net : a_net[i].kind # "load") =>
          \A x \in a_form.editingId : x \in Ids(a_devotions)
    /\ a_last.op = "updateSent" => ~a_last.deleted


\* C24: over a store that does not change and answers every fetch, with the
\* sentinel reported visible again and again, the reading view eventually is
\* Exhausted (hasMore false, nothing in flight), and whenever it is Exhausted
\* and idle the cache is the whole store, every record once, newest first.
C24_ScrollReachesExhausted ==
    /\ <>(~r_hasMore /\ Idle)
    /\ []((~r_hasMore /\ Idle) => r_devotions = OrderByCreatedAtDesc(store))

C24_Witness ==
    /\ ~r_hasMore
    /\ Idle
    /\ r_last.op = "fetchOk"
    /\ Len(r_devotions) > 2 * pageSize
    /\ r_devotions = OrderByCreatedAtDesc(store)

\* C25: the error message of the reading view is sticky: the step in which a
\* page fetch fails sets it, and no later step of the view, a successful
\* fetch included, clears it.
C25_ErrorIsSticky ==
    [][/\ r_last' # r_last /\ r_last'.op = "fetchFail" => r_error' # NULL
       /\ r_error # NULL => r_error' # NULL]_vars

C25_Witness ==
    /\ r_error # NULL
    /\ r_last.op = "fetchOk"
    /\ r_last.n > 0

\* C26: openDevotion and closeDevotion can run whatever the state of the
\* trigger (a fetch pending or not) and change only the selection and the
\* scroll lock; the arrival of a fetch's answer leaves the selection and the
\* scroll lock as they are.
C26_ModalIndependentOfFetch ==
    [][/\ (r_phase = "mounted" /\ r_selectedDevotion # None) => ENABLED RCloseDevotion
       /\ \A i \in 1..Len(r_devotions) :
              r_phase = "mounted" => ENABLED ROpenDevotion(r_devotions[i])
       /\ (\/ r_selectedDevotion' # r_selectedDevotion
           \/ r_overflow' # r_overflow
           \/ r_last' # r_last /\ r_last'.op \in {"open", "close"})
          => UNCHANGED <<store, r_devotions, r_hasMore, r_loading, r_loadingMore,
                         r_error, r_net>>
       /\ Len(r_net') < Len(r_net)
          => UNCHANGED <<r_selectedDevotion, r_overflow>>]_vars

C26_Witness ==
    /\ r_last.op = "close"
    /\ r_net # <<>>
    /\ r_loadingMore
    /\ r_devotions # <<>>


(***************************************************************************)
(* Claims about the route guard                                            *)
(***************************************************************************)
\* C27: a navigation reaches a route with requiresAuth only after getSession
\* has answered with a session and without error; when the answer is an
\* error or holds no session the router ends on admin-login with the
\* target's full path as the redirect query; a navigation to a route
\* without requiresAuth proceeds to it with no session check.
C27_GuardProtectsAdmin ==
    /\ (g_last.op = "proceeded" /\ Meta(g_last.to).requiresAuth)
          => /\ g_last.checked /\ g_last.session /\ ~g_last.error
             /\ g_route = g_last.to
    /\ g_last.op = "redirected"
          => /\ Meta(g_last.to).requiresAuth
             /\ g_last.checked /\ (g_last.error \/ ~g_last.session)
             /\ g_route.name = "admin-login"
             /\ g_route.query = Query({FullPathOf(g_last.to)}, {})
    /\ (g_last.op = "proceeded" /\ ~Meta(g_last.to).requiresAuth)
          => ~g_last.checked /\ g_route = g_last.to
    /\ g_last.op = "pending" => Meta(g_last.to).requiresAuth /\ g_nav # None
    /\ (Meta(g_route).requiresAuth /\ g_last.op \in {"proceeded", "redirected"})
          => g_last.op = "proceeded" /\ g_last.to = g_route

C27_Witness ==
    /\ g_last.op = "proceeded"
    /\ Meta(g_last.to).requiresAuth
    /\ g_last.to.query.rest # {}
    /\ g_route.name = "admin-dashboard"

====
